---- MODULE Spec2Model ----
(***************************************************************************)
(* Model of the text fitting engine of PD Generator                        *)
(* (src/src/pd_generator/text_utils.py) and of the places of poster.py     *)
(* that call it.                                                           *)
(*                                                                         *)
(* A Python str is a sequence of one-character strings.  Lengths are       *)
(* integers: the advance of a glyph is GlyphUnits(c) * font_size, and the  *)
(* line spacing multiplier 1.2 is the fraction LineSpacingNum /            *)
(* LineSpacingDen, so that every comparison of the code is an integer      *)
(* comparison here.                                                        *)
(***************************************************************************)
EXTENDS Integers, Sequences, FiniteSets, TLC

VARIABLES
    pc,                 \* position: "ready" before the call, then the name of what ran
    text,               \* the text argument
    max_width,          \* the max_width argument
    max_height,         \* the max_height argument
    initial_font_size,  \* the initial_font_size argument
    min_font_size,      \* the min_font_size argument
    lines,              \* the returned list of lines
    font_size,          \* wrap_text: the font_size argument; fit_text_to_box: the returned size
    was_truncated,      \* the returned truncation flag
    passes,             \* number of wrap_text calls made by the last fit_text_to_box
    config,             \* PosterGenerator.config (lengths in mm, font sizes in points)
    project,            \* the ProjectData given to generate_poster
    image,              \* what image_path is: "none", "missing", "ok" or "unreadable"
    warnings,           \* PosterGenerator.warnings
    fits,               \* generate_poster: the fit of each text region
    img_width,          \* _draw_image: the intrinsic width of the opened image
    img_height,         \* _draw_image: the intrinsic height of the opened image
    target_x,           \* _draw_image: the x argument
    target_y,           \* _draw_image: the y argument
    target_width,       \* _draw_image: the width argument
    target_height,      \* _draw_image: the height argument
    fit_mode,           \* _draw_image: the fit_mode argument
    drawn,              \* what was put on the canvas
    heap,               \* the list objects made by "[]": heap[i] is the contents of list i
    self_warnings,      \* the list that the attribute self.warnings is bound to
    calls,              \* per caller: its records and where its generate_poster call is
    returned,           \* the (record, warnings list) pairs returned so far, in order
    projects,           \* generate_all_posters: the projects argument, with what composing each meets
    only_ids,           \* generate_all_posters: the only_ids argument
    idx,                \* generate_all_posters: the position of the for loop in projects
    successes,          \* generate_all_posters: the successes list
    failures,           \* generate_all_posters: the failures list
    poster_calls,       \* generate_all_posters: the generate_poster calls made, in order
    logo_paths,         \* config.logos.paths, with what each path holds
    logo_area,          \* _draw_logos: x, y, max_width and the configured height and spacing
    logo_i,             \* _draw_logos: the position of the for loop in logo_paths
    current_x,          \* _draw_logos: the local current_x
    name,               \* sanitize_filename: the name argument
    max_length,         \* sanitize_filename: the max_length argument
    filename            \* sanitize_filename: the returned string

textVars == <<text, max_width, max_height, initial_font_size, min_font_size,
              lines, font_size, was_truncated, passes>>

posterVars == <<config, project, image, warnings, fits>>

imageVars == <<img_width, img_height, target_x, target_y, target_width, target_height,
               fit_mode, drawn>>

\* The variables that text fitting and generate_poster leave alone.
generatorVars == <<heap, self_warnings, calls, returned>>

batchVars == <<projects, only_ids, idx, successes, failures, poster_calls>>

logoVars == <<logo_paths, logo_area, logo_i, current_x>>

nameVars == <<name, max_length, filename>>

restVars == <<imageVars, generatorVars, batchVars, logoVars, nameVars>>

vars == <<pc, textVars, posterVars, restVars>>

\* The image variables while _draw_image is not exercised.
NoImage ==
    /\ img_width = 0 /\ img_height = 0
    /\ target_x = 0 /\ target_y = 0
    /\ target_width = 0 /\ target_height = 0
    /\ fit_mode = "cover"
    /\ drawn = [none |-> TRUE]

\* One PosterGenerator after __init__, with no caller.
NoCalls ==
    /\ heap = <<<<>>>>
    /\ self_warnings = 1
    /\ calls = [none |-> TRUE]
    /\ returned = <<>>

\* No generate_all_posters run.
NoBatch ==
    /\ projects = <<>>
    /\ only_ids = [given |-> FALSE, ids |-> {}]
    /\ idx = 1
    /\ successes = <<>>
    /\ failures = <<>>
    /\ poster_calls = <<>>

\* No logos configured and _draw_logos not entered.
NoLogos ==
    /\ logo_paths = <<>>
    /\ logo_area = [none |-> TRUE]
    /\ logo_i = 1
    /\ current_x = 0

\* sanitize_filename not called.
NoNames ==
    /\ name = <<>>
    /\ max_length = 0
    /\ filename = <<>>

NoRest == NoImage /\ NoCalls /\ NoBatch /\ NoLogos /\ NoNames

---------------------------------------------------------------------------
(* Bounds of the model *)

MaxLen == 3
MaxWidth == 4
MaxSize == 3
MaxHeight == 5
MinHeight == 0 - 3

(* Program constants *)

LineSpacingNum == 6
LineSpacingDen == 5

\* reportlab.lib.units.mm, 2.83 points, rounded to whole points.
mm == 3

TitleBoxHeightMm == 65      \* title_box_height = 65 * mm
LeftGutterMm == 20          \* logo_area_width = ... - 20 * mm
SectionSpacingMm == 60      \* section_height = (text_area_height - 60 * mm) / 3
TeamBlockHeightMm == 70     \* team_block_height = 70 * mm
TeamInitialReduction == 2   \* body_size - 2
SectionGapMm == 15          \* current_y -= height_used + 15 * mm
LabelGapMm == 4             \* label_gap = 4 * mm
TitleLineCap == 3           \* for line in name_lines[:3]

---------------------------------------------------------------------------
(* Characters and strings *)

SP == " "
NL == "\n"
TAB == "\t"
ELLIPSIS == "..."      \* the single glyph U+2026

\* "a" is a narrow letter and "W" a wide one.  TAB stands for every character
\* that str.strip() removes and str.split(" ") keeps inside a word: the tab,
\* the no-break space and the like.
Chars == {"a", "W", SP, NL, TAB}

\* What str.strip() removes.
Whitespace == {SP, NL, TAB}

\* IntTrunc rounding up instead of toward zero.
IntTruncUp(num, den) == 0 - ((0 - num) \div den)

\* Python's int() of the quotient num / den, den > 0: truncation toward zero.
IntTrunc(num, den) == IF num >= 0 THEN num \div den ELSE 0 - ((0 - num) \div den)

\* Python's ls[:k]: the first k elements, and for k < 0 all but the last -k.
SlicePrefix(ls, k) ==
    IF k >= 0
    THEN SubSeq(ls, 1, IF k <= Len(ls) THEN k ELSE Len(ls))
    ELSE SubSeq(ls, 1, IF Len(ls) + k >= 0 THEN Len(ls) + k ELSE 0)

Min2(a, b) == IF a <= b THEN a ELSE b
Max2(a, b) == IF a >= b THEN a ELSE b

\* All strings over the alphabet of length at most n.
StringsOver(alphabet, n) == UNION {[1..k -> alphabet] : k \in 0..n}

\* All strings over Chars of length at most n.
StringsUpTo(n) == StringsOver(Chars, n)

\* Advance width of a glyph, in units per point of font size.
GlyphUnits(c) ==
    CASE c = "a" -> 1
      [] c = "W" -> 2
      [] c = SP -> 1
      [] c = TAB -> 1
      [] c = NL -> 1
      [] c = ELLIPSIS -> 2

RECURSIVE SumUnits(_)
SumUnits(s) == IF s = <<>> THEN 0 ELSE GlyphUnits(Head(s)) + SumUnits(Tail(s))

\* reportlab's stringWidth(text, font_name, font_size): the sum of the glyph
\* advances, proportional to the font size.
stringWidth(s, size) == SumUnits(s) * size

\* str.strip(): leading and trailing whitespace removed.
RECURSIVE LStrip(_)
LStrip(s) == IF s # <<>> /\ Head(s) \in Whitespace THEN LStrip(Tail(s)) ELSE s

RECURSIVE RStrip(_)
RStrip(s) ==
    IF s # <<>> /\ s[Len(s)] \in Whitespace THEN RStrip(SubSeq(s, 1, Len(s) - 1)) ELSE s

strip(s) == RStrip(LStrip(s))

\* text.replace("\n", " \n ")
RECURSIVE ReplaceNewlines(_)
ReplaceNewlines(s) ==
    IF s = <<>> THEN <<>>
    ELSE (IF Head(s) = NL THEN <<SP, NL, SP>> ELSE <<Head(s)>>) \o ReplaceNewlines(Tail(s))

\* str.split(" "): one token per space-separated field, empty fields included.
RECURSIVE SplitAcc(_, _, _)
SplitAcc(s, cur, acc) ==
    IF s = <<>> THEN Append(acc, cur)
    ELSE IF Head(s) = SP THEN SplitAcc(Tail(s), <<>>, Append(acc, cur))
    ELSE SplitAcc(Tail(s), Append(cur, Head(s)), acc)

SplitSpace(s) == SplitAcc(s, <<>>, <<>>)

\* " ".join(lines)
RECURSIVE JoinSpace(_)
JoinSpace(ls) ==
    IF ls = <<>> THEN <<>>
    ELSE IF Len(ls) = 1 THEN ls[1]
    ELSE ls[1] \o <<SP>> \o JoinSpace(Tail(ls))

\* "".join(lines)
RECURSIVE Concat(_)
Concat(ls) == IF ls = <<>> THEN <<>> ELSE Head(ls) \o Concat(Tail(ls))

\* The characters of s that are not whitespace, in order.
NonSpace(s) == SelectSeq(s, LAMBDA c : c \notin Whitespace)

---------------------------------------------------------------------------
(* _break_long_word *)

\* BreakLoop losing the character that overflowed: current = "" after a flush.
RECURSIVE BreakLoopDropsChar(_, _, _, _, _, _)
BreakLoopDropsChar(word, i, result, current, width, size) ==
    IF i > Len(word)
    THEN IF current # <<>> THEN Append(result, current) ELSE result
    ELSE LET test == Append(current, word[i])
         IN  IF stringWidth(test, size) <= width
             THEN BreakLoopDropsChar(word, i + 1, result, test, width, size)
             ELSE BreakLoopDropsChar(word, i + 1,
                                     IF current # <<>> THEN Append(result, current)
                                                       ELSE result,
                                     <<>>, width, size)

\* The loop over the characters of word[i..], with the locals result and current.
RECURSIVE BreakLoop(_, _, _, _, _, _)
BreakLoop(word, i, result, current, width, size) ==
    IF i > Len(word)
    THEN IF current # <<>> THEN Append(result, current) ELSE result
    ELSE LET test == Append(current, word[i])
         IN  IF stringWidth(test, size) <= width
             THEN BreakLoop(word, i + 1, result, test, width, size)
             ELSE BreakLoop(word, i + 1,
                            IF current # <<>> THEN Append(result, current) ELSE result,
                            <<word[i]>>, width, size)

_break_long_word(word, width, size) == BreakLoop(word, 1, <<>>, <<>>, width, size)

---------------------------------------------------------------------------
(* wrap_text *)

\* WrapLoop closing a full line with test_line instead of current_line.
RECURSIVE WrapLoopFlushesTestLine(_, _, _, _, _, _)
WrapLoopFlushesTestLine(words, i, ls, current_line, width, size) ==
    IF i > Len(words)
    THEN IF current_line # <<>> THEN Append(ls, current_line) ELSE ls
    ELSE LET word == words[i] IN
         IF word = <<NL>>
         THEN WrapLoopFlushesTestLine(words, i + 1,
                       IF current_line # <<>> THEN Append(ls, strip(current_line)) ELSE ls,
                       <<>>, width, size)
         ELSE IF word = <<>>
         THEN WrapLoopFlushesTestLine(words, i + 1, ls, current_line, width, size)
         ELSE LET test_line == IF current_line # <<>>
                               THEN strip(current_line \o <<SP>> \o word)
                               ELSE word
                  flushed == IF current_line # <<>> THEN Append(ls, test_line) ELSE ls
              IN  IF stringWidth(test_line, size) <= width
                  THEN WrapLoopFlushesTestLine(words, i + 1, ls, test_line, width, size)
                  ELSE IF stringWidth(word, size) > width
                  THEN WrapLoopFlushesTestLine(words, i + 1,
                                flushed \o _break_long_word(word, width, size),
                                <<>>, width, size)
                  ELSE WrapLoopFlushesTestLine(words, i + 1, flushed, word, width, size)

\* The loop over words[i..], with the locals lines (ls) and current_line.
RECURSIVE WrapLoop(_, _, _, _, _, _)
WrapLoop(words, i, ls, current_line, width, size) ==
    IF i > Len(words)
    THEN IF current_line # <<>> THEN Append(ls, current_line) ELSE ls
    ELSE LET word == words[i] IN
         IF word = <<NL>>
         THEN WrapLoop(words, i + 1,
                       IF current_line # <<>> THEN Append(ls, strip(current_line)) ELSE ls,
                       <<>>, width, size)
         ELSE IF word = <<>>
         THEN WrapLoop(words, i + 1, ls, current_line, width, size)
         ELSE LET test_line == IF current_line # <<>>
                               THEN strip(current_line \o <<SP>> \o word)
                               ELSE word
                  flushed == IF current_line # <<>> THEN Append(ls, current_line) ELSE ls
              IN  IF stringWidth(test_line, size) <= width
                  THEN WrapLoop(words, i + 1, ls, test_line, width, size)
                  ELSE IF stringWidth(word, size) > width
                  THEN WrapLoop(words, i + 1,
                                flushed \o _break_long_word(word, width, size),
                                <<>>, width, size)
                  ELSE WrapLoop(words, i + 1, flushed, word, width, size)

wrap_text(t, width, size) ==
    IF t = <<>> THEN <<>>
    ELSE WrapLoop(SplitSpace(ReplaceNewlines(t)), 1, <<>>, <<>>, width, size)

---------------------------------------------------------------------------
(* Wrapping alone: wrap_text applied to every text, width and size *)

\* The poster variables while only text_utils is exercised.
NoPoster ==
    /\ config = [none |-> TRUE]
    /\ project = [none |-> TRUE]
    /\ image = "none"
    /\ warnings = <<>>
    /\ fits = [none |-> TRUE]


InitWrap ==
    /\ pc = "ready"
    /\ NoPoster
    /\ NoRest
    /\ text \in StringsUpTo(MaxLen + 2)
    /\ max_width \in 1..MaxWidth
    /\ font_size \in 1..MaxSize
    /\ max_height = 0
    /\ initial_font_size = font_size
    /\ min_font_size = font_size
    /\ lines = <<>>
    /\ was_truncated = FALSE
    /\ passes = 0

CallWrapText ==
    /\ pc = "ready"
    /\ pc' = "wrap_text"
    /\ lines' = wrap_text(text, max_width, font_size)
    /\ UNCHANGED <<text, max_width, max_height, initial_font_size, min_font_size,
                   font_size, was_truncated, passes>>
    /\ UNCHANGED posterVars
    /\ UNCHANGED restVars

NextWrap == CallWrapText

SpecWrap == InitWrap /\ [][NextWrap]_vars

\* Wrapping of longer texts of one paragraph (no newline).
InitParagraph ==
    /\ pc = "ready"
    /\ NoPoster
    /\ NoRest
    /\ text \in StringsOver(Chars \ {NL}, MaxLen + 4)
    /\ max_width \in 1..MaxWidth
    /\ font_size \in 1..MaxSize
    /\ max_height = 0
    /\ initial_font_size = font_size
    /\ min_font_size = font_size
    /\ lines = <<>>
    /\ was_truncated = FALSE
    /\ passes = 0

SpecParagraph == InitParagraph /\ [][NextWrap]_vars

---------------------------------------------------------------------------
(* calculate_text_height and fit_text_to_box *)

\* calculate_text_height(lines, font_size, line_spacing), times LineSpacingDen:
\* the height is len(lines) * font_size * line_spacing, and 0 for no lines.
calculate_text_height(ls, size) ==
    IF ls = <<>> THEN 0 ELSE Len(ls) * (size * LineSpacingNum)

\* height <= max_height, both sides times LineSpacingDen.
HeightFits(ls, size, h) == calculate_text_height(ls, size) <= h * LineSpacingDen

\* The loop that shortens last_line until last_line + ellipsis fits.
RECURSIVE ShortenLoop(_, _, _)
ShortenLoop(last_line, width, size) ==
    IF last_line # <<>> /\ stringWidth(Append(last_line, ELLIPSIS), size) > width
    THEN ShortenLoop(SubSeq(last_line, 1, Len(last_line) - 1), width, size)
    ELSE last_line

\* The code after the shrink loop: wrap at min_font_size and truncate.
\* n is the number of wrap_text calls made so far.
FitTruncate(t, width, h, min_size, n) ==
    LET ls == wrap_text(t, width, min_size)
        max_lines == IntTrunc(h * LineSpacingDen, min_size * LineSpacingNum)
    IN  IF Len(ls) > max_lines
        THEN LET kept == SlicePrefix(ls, max_lines)
                 last_line == ShortenLoop(kept[Len(kept)], width, min_size)
             IN  [lines |-> IF kept # <<>>
                            THEN [kept EXCEPT ![Len(kept)] = Append(last_line, ELLIPSIS)]
                            ELSE kept,
                  font_size |-> min_size,
                  was_truncated |-> TRUE,
                  passes |-> n + 1]
        ELSE [lines |-> ls, font_size |-> min_size, was_truncated |-> FALSE,
              passes |-> n + 1]

\* FitLoop decrementing the font size by 2 instead of 1.
RECURSIVE FitLoopStepTwo(_, _, _, _, _, _)
FitLoopStepTwo(t, width, h, min_size, size, n) ==
    IF size >= min_size
    THEN LET ls == wrap_text(t, width, size)
         IN  IF HeightFits(ls, size, h)
             THEN [lines |-> ls, font_size |-> size, was_truncated |-> FALSE,
                   passes |-> n + 1]
             ELSE FitLoopStepTwo(t, width, h, min_size, size - 2, n + 1)
    ELSE FitTruncate(t, width, h, min_size, n)

\* FitLoop running one iteration too many: "while font_size >= min_font_size - 1".
RECURSIVE FitLoopOneMore(_, _, _, _, _, _)
FitLoopOneMore(t, width, h, min_size, size, n) ==
    IF size >= min_size - 1
    THEN LET ls == wrap_text(t, width, size)
         IN  IF HeightFits(ls, size, h)
             THEN [lines |-> ls, font_size |-> size, was_truncated |-> FALSE,
                   passes |-> n + 1]
             ELSE FitLoopOneMore(t, width, h, min_size, size - 1, n + 1)
    ELSE FitTruncate(t, width, h, min_size, n)

\* The shrink loop "while font_size >= min_font_size", at font size `size`.
RECURSIVE FitLoop(_, _, _, _, _, _)
FitLoop(t, width, h, min_size, size, n) ==
    IF size >= min_size
    THEN LET ls == wrap_text(t, width, size)
         IN  IF HeightFits(ls, size, h)
             THEN [lines |-> ls, font_size |-> size, was_truncated |-> FALSE,
                   passes |-> n + 1]
             ELSE FitLoop(t, width, h, min_size, size - 1, n + 1)
    ELSE FitTruncate(t, width, h, min_size, n)

\* fit_text_to_box without its early return for "not text".
fit_text_to_box_NoEarlyReturn(t, width, h, initial_size, min_size) ==
    FitLoop(t, width, h, min_size, initial_size, 0)

fit_text_to_box(t, width, h, initial_size, min_size) ==
    IF t = <<>>
    THEN [lines |-> <<>>, font_size |-> initial_size, was_truncated |-> FALSE,
          passes |-> 0]
    ELSE FitLoop(t, width, h, min_size, initial_size, 0)

---------------------------------------------------------------------------
(* Fitting: fit_text_to_box applied to every text, box and pair of sizes *)

InitFit ==
    /\ pc = "ready"
    /\ NoPoster
    /\ NoRest
    /\ text \in StringsUpTo(MaxLen)
    /\ max_width \in 1..MaxWidth
    /\ max_height \in MinHeight..MaxHeight
    /\ initial_font_size \in 1..MaxSize
    /\ min_font_size \in 1..MaxSize
    /\ lines = <<>>
    /\ font_size = initial_font_size
    /\ was_truncated = FALSE
    /\ passes = 0

CallFitTextToBox ==
    /\ pc = "ready"
    /\ pc' = "fit_text_to_box"
    /\ \E r \in {fit_text_to_box(text, max_width, max_height,
                                  initial_font_size, min_font_size)} :
           /\ lines' = r.lines
           /\ font_size' = r.font_size
           /\ was_truncated' = r.was_truncated
           /\ passes' = r.passes
    /\ UNCHANGED <<text, max_width, max_height, initial_font_size, min_font_size>>
    /\ UNCHANGED posterVars
    /\ UNCHANGED restVars

NextFit == CallFitTextToBox

SpecFit == InitFit /\ [][NextFit]_vars

---------------------------------------------------------------------------
(* poster.py: PosterGenerator.generate_poster *)

\* The text variables while text_utils is not exercised.
NoText ==
    /\ text = <<>>
    /\ max_width = 0
    /\ max_height = 0
    /\ initial_font_size = 0
    /\ min_font_size = 0
    /\ lines = <<>>
    /\ font_size = 0
    /\ was_truncated = FALSE
    /\ passes = 0

\* The section headings and the record fields drawn under them, in drawing order.
Sections == <<"problem", "solution", "product">>

\* The text regions fitted with fit_text_to_box.
Regions == {"name", "problem", "solution", "product", "team"}

\* Config() with the defaults of config.py, and large fonts so that the short
\* texts of the model can overflow their boxes.
DefaultConfig ==
    [width_mm |-> 594, height_mm |-> 841, image_height_mm |-> 434,
     padding_left_mm |-> 40, padding_right_mm |-> 40,
     padding_top_mm |-> 20, padding_bottom_mm |-> 20,
     text_column_width_mm |-> 225,
     title_size |-> 100, heading_size |-> 25, body_size |-> 100,
     min_font_size |-> 100]

\* The page geometry computed at the top of generate_poster, in points.
Layout(cfg) ==
    LET page_width == cfg.width_mm * mm
        page_height == cfg.height_mm * mm
        image_height == cfg.image_height_mm * mm
        padding_left == cfg.padding_left_mm * mm
        padding_right == cfg.padding_right_mm * mm
        padding_top == cfg.padding_top_mm * mm
        padding_bottom == cfg.padding_bottom_mm * mm
        text_column_width == cfg.text_column_width_mm * mm
        logo_area_width == page_width - padding_left - padding_right
                               - text_column_width - LeftGutterMm * mm
        image_y == page_height - image_height
        content_top_y == image_y - padding_top
        text_area_height == content_top_y - padding_bottom
        team_top == padding_bottom + TeamBlockHeightMm * mm
        \* heading_size * 1.8
        team_text_top == team_top - (cfg.heading_size * 9) \div 5
    IN  [page_width |-> page_width,
         page_height |-> page_height,
         image_y |-> image_y,
         content_top_y |-> content_top_y,
         left_width |-> logo_area_width,
         title_box_height |-> TitleBoxHeightMm * mm,
         text_column_width |-> text_column_width,
         text_area_height |-> text_area_height,
         section_height |-> (text_area_height - SectionSpacingMm * mm) \div 3,
         team_top |-> team_top,
         team_text_top |-> team_text_top,
         team_max_height |-> team_text_top - padding_bottom]

\* The divisions of Layout are exact for this configuration.
ExactLayout(cfg) ==
    /\ (cfg.heading_size * 9) % 5 = 0
    /\ (Layout(cfg).text_area_height - SectionSpacingMm * mm) % 3 = 0

\* _draw_text_block with a heading: the heading takes heading_size *
\* line_spacing * 1.5 of max_height, the body is fitted in the rest.
_draw_text_block(cfg, t, width, height, size) ==
    LET heading_height == (cfg.heading_size * LineSpacingNum * 3) \div (LineSpacingDen * 2)
    IN  fit_text_to_box(t, width, height - heading_height, size, cfg.min_font_size)

\* _add_warning for a truncated region of a project.
TruncationWarning(region, project_id) ==
    [kind |-> "truncated", region |-> region, subject |-> project_id]

\* _add_warning of _draw_image when drawing raised.
ImageWarning == [kind |-> "image_failed", region |-> "image", subject |-> "image_path"]

\* The fit of each text region of generate_poster.
RegionFits(cfg, proj) ==
    LET L == Layout(cfg)
    IN  [r \in Regions |->
            IF r = "name"
            THEN fit_text_to_box(proj.project_name, L.left_width, L.title_box_height,
                                 cfg.title_size, cfg.min_font_size)
            ELSE IF r = "team"
            THEN fit_text_to_box(proj.team, L.text_column_width, L.team_max_height,
                                 Max2(cfg.body_size - TeamInitialReduction,
                                      cfg.min_font_size),
                                 cfg.min_font_size)
            ELSE _draw_text_block(cfg, proj[r], L.text_column_width, L.section_height,
                                  cfg.body_size)]

\* PosterWarnings without the warning of the team block.
PosterWarningsTeamSilent(proj, img, f) ==
    LET truncated(r) == IF f[r].was_truncated
                        THEN <<TruncationWarning(r, proj.project_id)>> ELSE <<>>
    IN  (IF img = "unreadable" THEN <<ImageWarning>> ELSE <<>>)
        \o truncated("name")
        \o truncated(Sections[1]) \o truncated(Sections[2]) \o truncated(Sections[3])

\* self.warnings when generate_poster returns: emptied at entry, then one
\* warning per failed image draw and per truncated region, in drawing order.
PosterWarnings(proj, img, f) ==
    LET truncated(r) == IF f[r].was_truncated
                        THEN <<TruncationWarning(r, proj.project_id)>> ELSE <<>>
    IN  (IF img = "unreadable" THEN <<ImageWarning>> ELSE <<>>)
        \o truncated("name")
        \o truncated(Sections[1]) \o truncated(Sections[2]) \o truncated(Sections[3])
        \o truncated("team")

\* Where the text of the section column was drawn, in fifths of a point
\* (times LineSpacingDen): the lowest baseline given to drawString by the
\* three _draw_text_block calls, and the top of the team block.  A block
\* starts at current_y, draws its heading at current_y - heading_size and
\* its lines from current_y - heading_height downwards, one line_height
\* apart; the next block starts height_used + 15 mm lower.
SectionColumn(cfg, f) ==
    LET L == Layout(cfg)
        heading_height == cfg.heading_size * 9      \* heading_size * 1.2 * 1.5
        line_height(r) == f[r].font_size * LineSpacingNum
        height_used(r) == heading_height + Len(f[r].lines) * line_height(r)
        gap == SectionGapMm * mm * LineSpacingDen
        top1 == L.content_top_y * LineSpacingDen
        top2 == top1 - height_used(Sections[1]) - gap
        top3 == top2 - height_used(Sections[2]) - gap
        lowest(r, top) ==
            IF f[r].lines = <<>>
            THEN top - cfg.heading_size * LineSpacingDen
            ELSE top - heading_height - (Len(f[r].lines) - 1) * line_height(r)
                     - f[r].font_size * LineSpacingDen
    IN  [sections_bottom |-> Min2(lowest(Sections[1], top1),
                                  Min2(lowest(Sections[2], top2),
                                       lowest(Sections[3], top3))),
         team_top |-> L.team_top * LineSpacingDen]

\* The drawString calls of a loop over ls that starts at baseline top and
\* moves down by line_h after each line (all in fifths of a point).
DrawnLines(ls, top, line_h) ==
    [i \in 1..Len(ls) |-> [y |-> top - (i - 1) * line_h, text |-> ls[i]]]

\* TitleBlock drawing every line of name_lines.
TitleBlockUncapped(cfg, f) ==
    LET L == Layout(cfg)
        title_box_top == L.content_top_y * LineSpacingDen - cfg.heading_size * 8
                             - LabelGapMm * mm * LineSpacingDen
        name_size == f["name"].font_size
    IN  DrawnLines(f["name"].lines,
                   title_box_top - name_size * LineSpacingDen,
                   name_size * LineSpacingNum)

\* The project name as drawn under the label: name_lines[:3] from
\* title_box_top - name_size downwards.
TitleBlock(cfg, f) ==
    LET L == Layout(cfg)
        \* content_top_y - label_size * 1.6 - label_gap
        title_box_top == L.content_top_y * LineSpacingDen - cfg.heading_size * 8
                             - LabelGapMm * mm * LineSpacingDen
        name_size == f["name"].font_size
    IN  DrawnLines(SlicePrefix(f["name"].lines, TitleLineCap),
                   title_box_top - name_size * LineSpacingDen,
                   name_size * LineSpacingNum)

\* TeamBlock flowing with the text column: anchored one section gap below
\* the lowest line of the sections instead of at team_top.
TeamBlockFlowing(cfg, f) ==
    LET top == SectionColumn(cfg, f).sections_bottom - SectionGapMm * mm * LineSpacingDen
        team_size == f["team"].font_size
    IN  [heading_y |-> top - cfg.heading_size * LineSpacingDen,
         team_text_top |-> top - cfg.heading_size * 9,
         team_max_height |-> Layout(cfg).team_max_height * LineSpacingDen,
         team_size |-> team_size,
         lines |-> DrawnLines(f["team"].lines,
                              top - cfg.heading_size * 9 - team_size * LineSpacingDen,
                              team_size * LineSpacingNum)]

\* The team block: where its heading and its text start, the height given
\* to the fit, and the team lines as drawn from team_text_top - team_size
\* downwards.
TeamBlock(cfg, f) ==
    LET L == Layout(cfg)
        team_size == f["team"].font_size
    IN  [heading_y |-> (L.team_top - cfg.heading_size) * LineSpacingDen,
         team_text_top |-> L.team_text_top * LineSpacingDen,
         team_max_height |-> L.team_max_height * LineSpacingDen,
         team_size |-> team_size,
         lines |-> DrawnLines(f["team"].lines,
                              (L.team_text_top - team_size) * LineSpacingDen,
                              team_size * LineSpacingNum)]

generate_poster(cfg, proj, img) ==
    LET f == RegionFits(cfg, proj)
        column == SectionColumn(cfg, f)
    IN  [fits |-> f, warnings |-> PosterWarnings(proj, img, f),
         drawn |-> [title |-> TitleBlock(cfg, f),
                    sections_bottom |-> column.sections_bottom,
                    team_top |-> column.team_top,
                    team |-> TeamBlock(cfg, f)]]

---------------------------------------------------------------------------
(* Composition: generate_poster applied to every project and configuration *)

\* The texts of a record field: no text, and one, two or three lines.
FieldTexts ==
    {<<>>, <<"a">>, <<"a", NL, "a">>, <<"a", NL, "a", NL, "a">>}

Projects ==
    [project_id : {"P1", "P2"}, project_name : FieldTexts, problem : FieldTexts,
     solution : FieldTexts, product : FieldTexts, team : FieldTexts]

\* The page heights of Configs: the default, one that leaves the body of a
\* section a height of exactly 0, and one that leaves it a negative height.
PageHeightsMm == {841, 579, 459}

\* The configurations: each page height, with the title and body fonts at and
\* above the minimum size.
Configs ==
    {c \in {[DefaultConfig EXCEPT !.height_mm = h, !.title_size = t, !.body_size = b] :
               h \in PageHeightsMm, t \in {100, 101}, b \in {100, 102, 103}} :
        ExactLayout(c)}

InitPoster ==
    /\ pc = "ready"
    /\ config \in Configs
    /\ project \in Projects
    /\ image \in {"none", "missing", "ok", "unreadable"}
    /\ warnings = <<>>
    /\ fits = [none |-> TRUE]
    /\ NoRest
    /\ text = <<>>
    /\ max_width = 0
    /\ max_height = 0
    /\ initial_font_size = 0
    /\ min_font_size = 0
    /\ lines = <<>>
    /\ font_size = 0
    /\ was_truncated = FALSE
    /\ passes = 0

CallGeneratePoster ==
    /\ pc = "ready"
    /\ pc' = "generate_poster"
    /\ \E r \in {generate_poster(config, project, image)} :
           /\ warnings' = r.warnings
           /\ fits' = r.fits
           /\ drawn' = r.drawn
    /\ UNCHANGED <<config, project, image, textVars>>
    /\ UNCHANGED <<img_width, img_height, target_x, target_y, target_width,
                   target_height, fit_mode>>
    /\ UNCHANGED <<generatorVars, batchVars, logoVars, nameVars>>

NextPoster == CallGeneratePoster

SpecPoster == InitPoster /\ [][NextPoster]_vars

\* Composition of records with long project names under small title fonts,
\* where the title box holds four or five lines.
MaxTitleLen == 9

TitleTexts == StringsOver({"a", NL}, MaxTitleLen)

TitleConfigs ==
    {[DefaultConfig EXCEPT !.title_size = t, !.min_font_size = 30] : t \in {30, 40}}

InitTitle ==
    /\ pc = "ready"
    /\ config \in TitleConfigs
    /\ project \in [project_id : {"P1"}, project_name : TitleTexts,
                     problem : {<<>>, <<"a">>}, solution : {<<"a">>},
                     product : {<<"a">>}, team : {<<"a">>}]
    /\ image = "ok"
    /\ warnings = <<>>
    /\ fits = [none |-> TRUE]
    /\ NoRest
    /\ NoText

SpecTitle == InitTitle /\ [][NextPoster]_vars

---------------------------------------------------------------------------
(* Properties of fit_text_to_box, checked under SpecFit *)

Fitted == pc = "fit_text_to_box"

\* The text wrapped at size s fits max_height.
FitsAt(s) == HeightFits(wrap_text(text, max_width, s), s, max_height)

\* s is a proper prefix of t, or t itself.
IsPrefix(s, t) == Len(s) <= Len(t) /\ SubSeq(t, 1, Len(s)) = s

\* The text holds at least one character that is not whitespace.
HasWord(t) == NonSpace(t) # <<>>

\* C1: minimal shrink.  For a non-empty text and initial_font_size >=
\* min_font_size, when some size of initial, initial-1, ..., min fits the
\* height, the result is not truncated and its size is the first such size
\* (so initial_font_size itself when the text fits unshrunk).
C1_MinimalShrink ==
    (Fitted /\ text # <<>> /\ initial_font_size >= min_font_size) =>
        \A s \in min_font_size..initial_font_size :
            (FitsAt(s) /\ \A s2 \in (s + 1)..initial_font_size : ~FitsAt(s2)) =>
                /\ ~was_truncated
                /\ font_size = s
                /\ lines = wrap_text(text, max_width, s)

\* A text that did not fit at the initial size and was shrunk to a size
\* strictly between the minimum and the initial one.
C1_Witness ==
    /\ Fitted /\ text # <<>> /\ ~was_truncated
    /\ min_font_size < font_size /\ font_size < initial_font_size
    /\ ~FitsAt(initial_font_size)

\* A call as generate_poster makes it with a sound configuration: the initial
\* size is not below the minimum and the box has a height.
WellFormedCall == initial_font_size >= min_font_size /\ max_height >= 0

\* C2: a truncated, non-empty result ends with the ellipsis and its last line
\* is not wider than max_width, whatever max_width is.  (The statement of the
\* claim, for well-formed calls; the code breaks it when max_width is narrower
\* than the ellipsis.)
C2_EllipsisLineFits ==
    (Fitted /\ WellFormedCall /\ was_truncated /\ lines # <<>>) =>
        LET last == lines[Len(lines)]
        IN  /\ last # <<>> /\ last[Len(last)] = ELLIPSIS
            /\ stringWidth(last, font_size) <= max_width

\* max_lines of the truncation step.
MaxLinesOf(h, min_size) == IntTrunc(h * LineSpacingDen, min_size * LineSpacingNum)

\* C3: with max_height >= 0 the returned lines fit the box vertically; a
\* truncated result keeps exactly the first max_lines lines of the wrap at
\* min_font_size (the last one shortened and closed by the ellipsis); and when
\* max_lines = 0 and there is something to draw the result is empty and
\* truncated.
C3_FitsVertically ==
    (Fitted /\ max_height >= 0) =>
        LET wrapped == wrap_text(text, max_width, min_font_size)
            max_lines == MaxLinesOf(max_height, min_font_size)
        IN  /\ Len(lines) * font_size * LineSpacingNum <= max_height * LineSpacingDen
            /\ was_truncated =>
                 /\ font_size = min_font_size
                 /\ Len(lines) = max_lines
                 /\ max_lines < Len(wrapped)
                 /\ \A i \in 1..(Len(lines) - 1) : lines[i] = wrapped[i]
                 /\ lines # <<>> =>
                      LET last == lines[Len(lines)]
                      IN  /\ last[Len(last)] = ELLIPSIS
                          /\ IsPrefix(SubSeq(last, 1, Len(last) - 1), wrapped[Len(lines)])
            /\ (max_lines = 0 /\ wrapped # <<>>) => (lines = <<>> /\ was_truncated)

\* A truncated result that keeps one line of several, in a box of positive height.
C3_Witness ==
    /\ Fitted /\ max_height > 0 /\ was_truncated /\ Len(lines) >= 1
    /\ Len(wrap_text(text, max_width, min_font_size)) > Len(lines) + 1

\* C4: geometric impossibility.  With max_height <= 0 a text that holds a word
\* comes back as an empty line list with truncated = true.  (The statement of
\* the claim, for texts with a word and initial_font_size >= min_font_size;
\* the code breaks it when max_lines < 0.)
C4_NoSpaceGivesNothing ==
    (Fitted /\ HasWord(text) /\ initial_font_size >= min_font_size /\ max_height <= 0) =>
        (lines = <<>> /\ was_truncated)

\* C5: no silent loss.  A result that is not truncated holds every
\* non-whitespace character of the text, in order, none dropped or repeated.
C5_NoSilentLoss ==
    (Fitted /\ ~was_truncated) => NonSpace(Concat(lines)) = NonSpace(text)

\* An untruncated result in which one word was broken over several lines.
C5_Witness ==
    /\ Fitted /\ ~was_truncated /\ Len(lines) >= 2
    /\ \A i \in 1..Len(text) : text[i] \notin Whitespace

\* The lines are the wrap of the text at the returned size, or a truncated
\* prefix of it (the last line shortened and closed by the ellipsis).
LinesAreWrapAt(size) ==
    LET wrapped == wrap_text(text, max_width, size)
    IN  IF was_truncated
        THEN /\ Len(lines) <= Len(wrapped)
             /\ \A i \in 1..(Len(lines) - 1) : lines[i] = wrapped[i]
        ELSE lines = wrapped

\* C6: the returned size is at least min_font_size and the lines are the wrap
\* at that size, or a truncated prefix of it.  (The statement of the claim;
\* the code breaks it for the empty text with initial_font_size below
\* min_font_size.)
C6_ResolvedSizeAtLeastMin ==
    Fitted => (font_size >= min_font_size /\ LinesAreWrapAt(font_size))

---------------------------------------------------------------------------
(* Properties of wrap_text, checked under SpecWrap *)

Wrapped == pc = "wrap_text"

\* The words of a text: its space- and newline-separated fields that are not empty.
Words(t) == SelectSeq(SplitSpace(ReplaceNewlines(t)), LAMBDA w : w # <<>> /\ w # <<NL>>)

\* No word of the text is wider than the box, so none is broken.
NoLongWord(t, width, size) ==
    \A i \in 1..Len(Words(t)) : stringWidth(Words(t)[i], size) <= width

HasChar(t, c) == \E i \in 1..Len(t) : t[i] = c

\* Joining the lines with single spaces and wrapping again gives the same lines.
RoundTrip == wrap_text(JoinSpace(lines), max_width, font_size) = lines

\* C9 as stated (for texts without tabs): the round trip holds for every text,
\* width and size.
C9_RoundTripAlways == (Wrapped /\ ~HasChar(text, TAB)) => RoundTrip

\* C9, amended: the round trip holds for every text whose only whitespace is
\* the space character (no newline, no tab, no other space character) and
\* which holds no word wider than max_width at the given size.
C9_RoundTrip ==
    (/\ Wrapped
     /\ ~HasChar(text, NL) /\ ~HasChar(text, TAB)
     /\ NoLongWord(text, max_width, font_size)) => RoundTrip

\* A text of several words wrapped into at least two lines, one of them with
\* two words.
C9_Witness ==
    /\ Wrapped /\ ~HasChar(text, NL) /\ ~HasChar(text, TAB)
    /\ NoLongWord(text, max_width, font_size)
    /\ Len(lines) >= 2
    /\ \E i \in 1..Len(lines) : HasChar(lines[i], SP)

\* C10: the wrapped height does not grow when the width grows at the same
\* size, and does not shrink when the size grows at the same width.  (The
\* statement of the claim; the code breaks it for a text in which a word ends
\* with a whitespace character other than the space.)
C10_HeightMonotone ==
    Wrapped =>
        /\ \A w2 \in max_width..MaxWidth :
             calculate_text_height(wrap_text(text, w2, font_size), font_size)
                 <= calculate_text_height(lines, font_size)
        /\ \A s2 \in font_size..MaxSize :
             calculate_text_height(wrap_text(text, max_width, s2), s2)
                 >= calculate_text_height(lines, font_size)

---------------------------------------------------------------------------
(* Properties of generate_poster, checked under SpecPoster *)

Composed == pc = "generate_poster"

\* The text generate_poster fits into region r.
FieldOf(r) == IF r = "name" THEN project.project_name ELSE project[r]

\* The height of the box region r is fitted into.
BoxHeightOf(r) ==
    LET L == Layout(config)
    IN  IF r = "name" THEN L.title_box_height
        ELSE IF r = "team" THEN L.team_max_height
        ELSE L.section_height
                 - (config.heading_size * LineSpacingNum * 3) \div (LineSpacingDen * 2)

\* Some warning of the returned list is the truncation warning of region r.
WarnedTruncated(r) ==
    \E i \in 1..Len(warnings) :
        warnings[i].kind = "truncated" /\ warnings[i].region = r

\* C7: for a region whose text has length zero, fit_text_to_box returns no
\* lines and truncated = false whatever the height of its box (positive, zero
\* or negative), without wrapping anything, and generate_poster returns no
\* truncation warning for that region.
C7_EmptyTextNoWarning ==
    Composed =>
        \A r \in Regions :
            FieldOf(r) = <<>> =>
                /\ fits[r].lines = <<>>
                /\ ~fits[r].was_truncated
                /\ fits[r].passes = 0
                /\ ~WarnedTruncated(r)

\* A poster whose team text is empty, with one empty section in a box of
\* negative height next to a section that was truncated and warned about.
C7_Witness ==
    /\ Composed
    /\ project.team = <<>> /\ fits["team"].lines = <<>>
    /\ project.problem = <<>> /\ BoxHeightOf("problem") < 0
    /\ ~WarnedTruncated("problem") /\ ~WarnedTruncated("team")
    /\ project.solution # <<>> /\ WarnedTruncated("solution")

---------------------------------------------------------------------------
(* poster.py: PosterGenerator._draw_image *)

\* Bounds of the image model: the intrinsic sizes run over MinDim..MaxDim,
\* the target sizes over 1..MaxDim.
MaxDim == 11
MinDim == 0 - 1

\* A Python float is a rational [num, den] with den > 0 that has at most
\* FloatBits significant bits (53 in CPython); every operation rounds its
\* exact result to the nearest such number, ties to even.
FloatBits == 7

RECURSIVE Pow2(_)
Pow2(k) == IF k = 0 THEN 1 ELSE 2 * Pow2(k - 1)

\* The integer nearest to n / d (n >= 0, d > 0), ties to even.
RoundHalfEven(n, d) ==
    LET q == n \div d
        r == n % d
    IN  IF 2 * r < d THEN q
        ELSE IF 2 * r > d THEN q + 1
        ELSE IF q % 2 = 0 THEN q ELSE q + 1

\* The float nearest to the rational n / d (d > 0).
RECURSIVE Fl(_, _)
Fl(n, d) ==
    IF n = 0 THEN [num |-> 0, den |-> 1]
    ELSE IF n < 0
         THEN LET r == Fl(0 - n, d) IN [num |-> 0 - r.num, den |-> r.den]
    ELSE IF n >= Pow2(FloatBits) * d
         THEN LET r == Fl(n, 2 * d) IN [num |-> 2 * r.num, den |-> r.den]
    ELSE IF 2 * n < Pow2(FloatBits) * d
         THEN LET r == Fl(2 * n, d) IN [num |-> r.num, den |-> 2 * r.den]
    ELSE [num |-> RoundHalfEven(n, d), den |-> 1]

\* float(i) of an int that needs no rounding.
FromInt(i) == [num |-> i, den |-> 1]

\* x / y and x * y of two floats (y # 0 for the division).
FDiv(x, y) ==
    IF y.num > 0 THEN Fl(x.num * y.den, x.den * y.num)
    ELSE Fl(0 - x.num * y.den, 0 - x.den * y.num)

FMul(x, y) == Fl(x.num * y.num, x.den * y.den)

\* x + y and x - y of two floats, and x / 2.
FAdd(x, y) == Fl(x.num * y.den + y.num * x.den, x.den * y.den)
FSub(x, y) == Fl(x.num * y.den - y.num * x.den, x.den * y.den)

\* FHalf without the division: x itself.
FWhole(x) == Fl(x.num, x.den)

FHalf(x) == Fl(x.num, 2 * x.den)

\* x > y, x >= y and x = y of two floats.
FGt(x, y) == x.num * y.den > y.num * x.den
FGe(x, y) == x.num * y.den >= y.num * x.den
FEq(x, y) == x.num * y.den = y.num * x.den

\* The body of the try block of _draw_image for an image that opened, up to
\* the call of c.drawImage: the position and the scaled size handed to
\* c.drawImage, or raised = TRUE when a division by zero raises
\* ZeroDivisionError.
Placement(iw, ih, x, y, w, h, mode) ==
    LET failed == [raised |-> TRUE, draw_x |-> FromInt(0), draw_y |-> FromInt(0),
                   scaled_width |-> FromInt(0), scaled_height |-> FromInt(0)]
        placed(dx, dy, sw, sh) == [raised |-> FALSE, draw_x |-> dx, draw_y |-> dy,
                                   scaled_width |-> sw, scaled_height |-> sh]
        \* x - (scaled - target) / 2 of the cover branches
        cover_offset(at, scaled, target) ==
            FSub(FromInt(at), FHalf(FSub(scaled, FromInt(target))))
        \* x + (target - scaled) / 2 of the contain branch
        contained(sw, sh) ==
            placed(FAdd(FromInt(x), FHalf(FSub(FromInt(w), sw))),
                   FAdd(FromInt(y), FHalf(FSub(FromInt(h), sh))), sw, sh)
    IN  IF ih = 0 \/ h = 0 THEN failed
        ELSE LET img_aspect == FDiv(FromInt(iw), FromInt(ih))
                 target_aspect == FDiv(FromInt(w), FromInt(h))
             IN  IF mode = "cover"
                 THEN IF FGt(img_aspect, target_aspect)
                      THEN LET scale == FDiv(FromInt(h), FromInt(ih))
                               scaled_width == FMul(FromInt(iw), scale)
                           IN  placed(cover_offset(x, scaled_width, w), FromInt(y),
                                      scaled_width, FromInt(h))
                      ELSE IF iw = 0 THEN failed
                      ELSE LET scale == FDiv(FromInt(w), FromInt(iw))
                               scaled_height == FMul(FromInt(ih), scale)
                           IN  placed(FromInt(x), cover_offset(y, scaled_height, h),
                                      FromInt(w), scaled_height)
                 ELSE IF FGt(img_aspect, target_aspect)
                      THEN IF img_aspect.num = 0 THEN failed
                           ELSE contained(FromInt(w), FDiv(FromInt(w), img_aspect))
                      ELSE contained(FMul(FromInt(h), img_aspect), FromInt(h))

\* _draw_image: what it leaves on the canvas.  img is "ok", "unreadable"
\* (Image.open raises) or "corrupt" (Image.open succeeds, c.drawImage
\* raises while it reads the pixels).  op is the last thing drawn: the image,
\* or, when anything in the try block raised, the placeholder rectangle of
\* the except block, together with the warning.  clip is the clip path that
\* was installed ("target" for the rectangle x, y, width, height), and depth
\* the number of c.saveState() calls not yet matched by c.restoreState()
\* when the function returns.
_draw_image(img, iw, ih, x, y, w, h, mode) ==
    LET p == IF img = "unreadable"
             THEN [raised |-> TRUE, draw_x |-> FromInt(0), draw_y |-> FromInt(0),
                   scaled_width |-> FromInt(0), scaled_height |-> FromInt(0)]
             ELSE Placement(iw, ih, x, y, w, h, mode)
        placeholder(clip, depth) ==
            [op |-> "rect", draw_x |-> FromInt(x), draw_y |-> FromInt(y),
             scaled_width |-> FromInt(w), scaled_height |-> FromInt(h),
             clip |-> clip, depth |-> depth, warnings |-> <<ImageWarning>>]
    IN  IF p.raised
        THEN placeholder("none", 0)
        ELSE IF img = "corrupt"
        THEN \* cover: saveState and clipPath ran, drawImage raised, and the
             \* except block runs without restoreState
             IF mode = "cover" THEN placeholder("target", 1)
                               ELSE placeholder("none", 0)
        ELSE [op |-> "drawImage", draw_x |-> p.draw_x, draw_y |-> p.draw_y,
              scaled_width |-> p.scaled_width, scaled_height |-> p.scaled_height,
              clip |-> IF mode = "cover" THEN "target" ELSE "none",
              depth |-> 0, warnings |-> <<>>]

\* The y arguments of the model.  generate_poster, the only caller, passes
\* x = 0 and y = image_y.
Origins == {0, 3}

InitImage ==
    /\ pc = "ready"
    /\ NoText
    /\ config = [none |-> TRUE]
    /\ project = [none |-> TRUE]
    /\ fits = [none |-> TRUE]
    /\ warnings = <<>>
    /\ image \in {"ok", "unreadable", "corrupt"}
    /\ img_width \in MinDim..MaxDim
    /\ img_height \in MinDim..MaxDim
    /\ target_x = 0
    /\ target_y \in Origins
    /\ target_width \in 1..MaxDim
    /\ target_height \in 1..MaxDim
    /\ fit_mode \in {"cover", "contain"}
    /\ drawn = [none |-> TRUE]
    /\ NoCalls
    /\ NoBatch
    /\ NoLogos
    /\ NoNames

CallDrawImage ==
    /\ pc = "ready"
    /\ pc' = "_draw_image"
    /\ \E r \in {_draw_image(image, img_width, img_height, target_x, target_y,
                              target_width, target_height, fit_mode)} :
           /\ drawn' = [op |-> r.op, draw_x |-> r.draw_x, draw_y |-> r.draw_y,
                        scaled_width |-> r.scaled_width,
                        scaled_height |-> r.scaled_height,
                        clip |-> r.clip, depth |-> r.depth]
           /\ warnings' = warnings \o r.warnings
    /\ UNCHANGED <<img_width, img_height, target_x, target_y, target_width,
                   target_height, fit_mode>>
    /\ UNCHANGED <<generatorVars, batchVars, logoVars, nameVars>>
    /\ UNCHANGED <<config, project, image, fits, textVars>>

NextImage == CallDrawImage

SpecImage == InitImage /\ [][NextImage]_vars

---------------------------------------------------------------------------
(* Properties of _draw_image, checked under SpecImage *)

ImageDrawn == pc = "_draw_image"

\* C11: image placement bounds.  For an image that opened with positive
\* intrinsic width and height and a target of positive width and height, the
\* size given to drawImage is at least the target in both dimensions in cover
\* mode and at most the target in both dimensions in contain mode, and one of
\* the two scaled dimensions is the target's.
C11_PlacementBounds ==
    (ImageDrawn /\ image = "ok" /\ img_width > 0 /\ img_height > 0) =>
        /\ drawn.op = "drawImage"
        /\ \/ FEq(drawn.scaled_width, FromInt(target_width))
           \/ FEq(drawn.scaled_height, FromInt(target_height))
        /\ fit_mode = "cover" =>
               /\ FGe(drawn.scaled_width, FromInt(target_width))
               /\ FGe(drawn.scaled_height, FromInt(target_height))
        /\ fit_mode = "contain" =>
               /\ FGe(FromInt(target_width), drawn.scaled_width)
               /\ FGe(FromInt(target_height), drawn.scaled_height)

---------------------------------------------------------------------------
(* Properties of the warnings of generate_poster, checked under SpecPoster *)

\* The positions of the returned list that hold a truncation warning of region r.
TruncationsOf(r) ==
    {i \in 1..Len(warnings) : warnings[i].kind = "truncated" /\ warnings[i].region = r}

\* C13: every text region whose fit came back truncated has exactly one
\* warning in the returned list, naming the region and the project id; a
\* region whose fit was not truncated has none; so the list holds one
\* truncation entry per truncated region.
C13_OneWarningPerTruncatedRegion ==
    Composed =>
        /\ \A r \in Regions :
               /\ Cardinality(TruncationsOf(r)) = (IF fits[r].was_truncated THEN 1 ELSE 0)
               /\ \A i \in TruncationsOf(r) : warnings[i].subject = project.project_id
        /\ Cardinality({i \in 1..Len(warnings) : warnings[i].kind = "truncated"})
               = Cardinality({r \in Regions : fits[r].was_truncated})

\* A poster with the team and a section truncated, and the name and another
\* section not truncated.
C13_Witness ==
    /\ Composed
    /\ fits["team"].was_truncated /\ fits["solution"].was_truncated
    /\ ~fits["name"].was_truncated /\ ~fits["problem"].was_truncated
    /\ project.project_name # <<>> /\ project.problem # <<>>
    /\ Len(warnings) = 2

\* C14: missing image.  When generate_poster is given no image path, or a
\* path that does not exist, the returned warning list holds a warning about
\* the missing image.
C14_MissingImageWarned ==
    (Composed /\ image \in {"none", "missing"}) =>
        \E i \in 1..Len(warnings) : warnings[i].region = "image"

\* Every section has a body box of non-negative height.
SectionBudgetsNonNegative == \A r \in {"problem", "solution", "product"} : BoxHeightOf(r) >= 0

\* C15: no overlap between the section column and the team block.  On a page
\* of the default size, where the budget of every section is non-negative,
\* the lowest line of text drawn by the three sections lies above the top of
\* the team block.
C15_SectionsAboveTeam ==
    (Composed /\ SectionBudgetsNonNegative /\ config.height_mm = DefaultConfig.height_mm) =>
        drawn.sections_bottom > drawn.team_top

---------------------------------------------------------------------------
(* poster.py: one PosterGenerator used for several records *)

\* The callers of generate_poster.
Threads == {1, 2}

\* Bound: the number of records one caller composes in a row.
MaxCalls == 3

\* The records composed: (project, image) pairs whose team text fits or is
\* truncated and whose image draws or fails.
Jobs ==
    [project : {p \in Projects :
                    /\ p.project_name = <<"a">> /\ p.problem = <<"a">>
                    /\ p.solution = <<"a">> /\ p.product = <<"a">>
                    /\ p.team \in {<<"a">>, <<"a", NL, "a", NL, "a">>}},
     image : {"ok", "unreadable"}]

\* The warnings generate_poster adds for a job, in the order it adds them.
WarningsOf(job) == generate_poster(DefaultConfig, job.project, job.image).warnings

\* A caller that has not started: jobs are its records, next the one it
\* composes next, k the warnings added in the current call, list the list
\* object that _add_warning has loaded from self.warnings.
Caller(jobs) == [jobs |-> jobs, next |-> 1, pc |-> "idle", k |-> 0, list |-> 0]

\* The variables not used by the generator model.
NoOther ==
    /\ NoText
    /\ NoImage
    /\ NoBatch
    /\ NoLogos
    /\ NoNames
    /\ config = DefaultConfig
    /\ project = [none |-> TRUE]
    /\ image = "none"
    /\ warnings = <<>>
    /\ fits = [none |-> TRUE]

\* One caller composing 1..MaxCalls records one after the other.
InitSequence ==
    /\ pc = "generator"
    /\ NoOther
    /\ heap = <<<<>>>>
    /\ self_warnings = 1
    /\ returned = <<>>
    /\ \E n \in 1..MaxCalls : \E js \in [1..n -> Jobs] :
           calls = [t \in Threads |-> IF t = 1 THEN Caller(js) ELSE Caller(<<>>)]

\* Two callers, each composing one record, the two records being different
\* projects.
InitParallel ==
    /\ pc = "generator"
    /\ NoOther
    /\ heap = <<<<>>>>
    /\ self_warnings = 1
    /\ returned = <<>>
    /\ \E j1 \in Jobs : \E j2 \in Jobs :
           /\ j1.project.project_id # j2.project.project_id
           /\ calls = [t \in Threads |-> IF t = 1 THEN Caller(<<j1>>) ELSE Caller(<<j2>>)]

CurrentJob(t) == calls[t].jobs[calls[t].next]

\* generate_poster entry with "self.warnings.clear()" in place of
\* "self.warnings = []".
BeginGeneratePosterClears(t) ==
    /\ calls[t].pc = "idle"
    /\ calls[t].next <= Len(calls[t].jobs)
    /\ heap' = [heap EXCEPT ![self_warnings] = <<>>]
    /\ calls' = [calls EXCEPT ![t].pc = "drawing", ![t].k = 0]
    /\ UNCHANGED <<self_warnings, returned>>
    /\ UNCHANGED <<pc, textVars, posterVars, imageVars, batchVars, logoVars, nameVars>>

\* generate_poster entry: self.warnings = [] binds the attribute to a new list.
BeginGeneratePoster(t) ==
    /\ calls[t].pc = "idle"
    /\ calls[t].next <= Len(calls[t].jobs)
    /\ heap' = Append(heap, <<>>)
    /\ self_warnings' = Len(heap) + 1
    /\ calls' = [calls EXCEPT ![t].pc = "drawing", ![t].k = 0]
    /\ UNCHANGED returned
    /\ UNCHANGED <<pc, textVars, posterVars, imageVars, batchVars, logoVars, nameVars>>

\* _add_warning, first half: the expression self.warnings is evaluated.
LoadWarnings(t) ==
    /\ calls[t].pc = "drawing"
    /\ calls[t].k < Len(WarningsOf(CurrentJob(t)))
    /\ calls' = [calls EXCEPT ![t].pc = "appending", ![t].list = self_warnings]
    /\ UNCHANGED <<heap, self_warnings, returned>>
    /\ UNCHANGED <<pc, textVars, posterVars, imageVars, batchVars, logoVars, nameVars>>

\* _add_warning, second half: .append(message) on the list that was loaded.
AppendWarning(t) ==
    /\ calls[t].pc = "appending"
    /\ heap' = [heap EXCEPT ![calls[t].list] =
                    Append(@, WarningsOf(CurrentJob(t))[calls[t].k + 1])]
    /\ calls' = [calls EXCEPT ![t].pc = "drawing", ![t].k = @ + 1]
    /\ UNCHANGED <<self_warnings, returned>>
    /\ UNCHANGED <<pc, textVars, posterVars, imageVars, batchVars, logoVars, nameVars>>

\* return output_path, self.warnings: the list the attribute is bound to now.
ReturnGeneratePoster(t) ==
    /\ calls[t].pc = "drawing"
    /\ calls[t].k = Len(WarningsOf(CurrentJob(t)))
    /\ returned' = Append(returned, [thread |-> t, job |-> CurrentJob(t),
                                     list |-> self_warnings])
    /\ calls' = [calls EXCEPT ![t].pc = "idle", ![t].next = @ + 1]
    /\ UNCHANGED <<heap, self_warnings>>
    /\ UNCHANGED <<pc, textVars, posterVars, imageVars, batchVars, logoVars, nameVars>>

NextGenerator ==
    \E t \in Threads :
        \/ BeginGeneratePoster(t)
        \/ LoadWarnings(t)
        \/ AppendWarning(t)
        \/ ReturnGeneratePoster(t)

SpecSequence == InitSequence /\ [][NextGenerator]_vars

SpecParallel == InitParallel /\ [][NextGenerator]_vars

---------------------------------------------------------------------------
(* Properties of the generator, checked under SpecSequence and SpecParallel *)

\* C16: statelessness across records.  In a sequence of generate_poster
\* calls on one PosterGenerator, at every later moment the list a call
\* returned holds exactly the warnings of its own record, in order: nothing
\* carried over from earlier records, nothing changed by later calls, the
\* same as a fresh generator returns for that record.
C16_ReturnedWarningsAreOwn ==
    \A i \in 1..Len(returned) : heap[returned[i].list] = WarningsOf(returned[i].job)

\* Three records composed in a row, the first and the last with warnings,
\* the one between them without.
C16_Witness ==
    /\ Len(returned) = 3
    /\ heap[returned[1].list] # <<>>
    /\ heap[returned[2].list] = <<>>
    /\ Len(heap[returned[3].list]) = 2
    /\ returned[1].job.project.project_id # returned[3].job.project.project_id

\* C17: parallel composition.  When two generate_poster calls for different
\* records run concurrently on one PosterGenerator, each call returns exactly
\* the warnings of its own record.
C17_ParallelWarningsAreOwn ==
    (\A t \in Threads : calls[t].next > Len(calls[t].jobs)) =>
        \A t \in Threads : \E i \in 1..Len(returned) :
            /\ returned[i].thread = t
            /\ heap[returned[i].list] = WarningsOf(calls[t].jobs[1])

---------------------------------------------------------------------------
(* poster.py: generate_all_posters *)

\* Bound: the number of projects given to generate_all_posters.
MaxBatch == 3

\* validate without the test of the team field.
validateSkipsTeam(p) ==
    LET missing(empty, message) == IF empty THEN <<message>> ELSE <<>>
    IN  missing(p.project_id = "", "Missing project_id")
        \o missing(p.project_name = <<>>, "Missing project_name")
        \o missing(p.problem = <<>>, "Missing problem description")
        \o missing(p.solution = <<>>, "Missing solution description")
        \o missing(p.product = <<>>, "Missing product description")

\* ProjectData.validate: one message per empty field.
validate(p) ==
    LET missing(empty, message) == IF empty THEN <<message>> ELSE <<>>
    IN  missing(p.project_id = "", "Missing project_id")
        \o missing(p.project_name = <<>>, "Missing project_name")
        \o missing(p.problem = <<>>, "Missing problem description")
        \o missing(p.solution = <<>>, "Missing solution description")
        \o missing(p.product = <<>>, "Missing product description")
        \o missing(p.team = <<>>, "Missing team information")

\* fit_text_to_box raises ZeroDivisionError: the text is not empty, no size of
\* the shrink loop fits, and line_height = min_font_size * line_spacing is 0
\* in max_lines = int(max_height / line_height).
FitRaises(t, width, h, initial_size, min_size) ==
    /\ t # <<>>
    /\ min_size * LineSpacingNum = 0
    /\ \A size \in min_size..initial_size : ~HeightFits(wrap_text(t, width, size), size, h)

\* The fit of region r raises, with the arguments generate_poster gives it.
RegionRaises(cfg, proj, r) ==
    LET L == Layout(cfg)
        heading_height == (cfg.heading_size * LineSpacingNum * 3) \div (LineSpacingDen * 2)
    IN  IF r = "name"
        THEN FitRaises(proj.project_name, L.left_width, L.title_box_height,
                       cfg.title_size, cfg.min_font_size)
        ELSE IF r = "team"
        THEN FitRaises(proj.team, L.text_column_width, L.team_max_height,
                       Max2(cfg.body_size - TeamInitialReduction, cfg.min_font_size),
                       cfg.min_font_size)
        ELSE FitRaises(proj[r], L.text_column_width, L.section_height - heading_height,
                       cfg.body_size, cfg.min_font_size)

\* generate_poster raises: a fit raises, or c.save() cannot write the file.
PosterRaises(cfg, entry) ==
    \/ \E r \in Regions : RegionRaises(cfg, entry.project, r)
    \/ entry.save_fails

\* The order in which generate_poster fits its regions.
RegionOrder == <<"name", "problem", "solution", "product", "team">>

\* self.warnings when an exception leaves generate_poster (no image given):
\* the truncation warnings of the regions fitted before the one whose fit
\* raised, or of all regions when it is c.save() that raised.
RECURSIVE WarningsUntilRaise(_, _, _)
WarningsUntilRaise(cfg, proj, i) ==
    IF i > Len(RegionOrder) THEN <<>>
    ELSE IF RegionRaises(cfg, proj, RegionOrder[i]) THEN <<>>
    ELSE (IF RegionFits(cfg, proj)[RegionOrder[i]].was_truncated
          THEN <<TruncationWarning(RegionOrder[i], proj.project_id)>> ELSE <<>>)
         \o WarningsUntilRaise(cfg, proj, i + 1)

\* A project with every required field filled.
CompleteProject(id) ==
    [project_id |-> id, project_name |-> <<"a">>, problem |-> <<"a">>,
     solution |-> <<"a">>, product |-> <<"a">>, team |-> <<"a">>]

\* The text fields of a record that validate requires.
TextFields == {"project_name", "problem", "solution", "product", "team"}

\* The projects of a run: complete ones, ones with one required field empty
\* (the project id, or one text field), and one with every text field empty.
BatchProjects ==
    {CompleteProject(id) : id \in {"P1", "P2", ""}}
        \cup {[CompleteProject("P1") EXCEPT ![f] = <<>>] : f \in TextFields}
        \cup {[CompleteProject("P2") EXCEPT !.team = <<>>]}
        \cup {[project_id |-> "P1", project_name |-> <<>>, problem |-> <<>>,
                solution |-> <<>>, product |-> <<>>, team |-> <<>>]}

\* A project of the run with what its composition meets: whether writing
\* the PDF fails (only a project that validates is composed).
BatchEntries ==
    {entry \in [project : BatchProjects, save_fails : BOOLEAN] :
        entry.save_fails => validate(entry.project) = <<>>}

\* The configurations of a run: min_font_size 0 or positive, on the default
\* page and on a page too short for its sections.
BatchConfigs ==
    {[DefaultConfig EXCEPT !.height_mm = h, !.min_font_size = m] :
        h \in {841, 459}, m \in {0, 100}}

InitBatch ==
    /\ pc = "ready"
    /\ NoText
    /\ NoImage
    /\ NoCalls
    /\ NoLogos
    /\ NoNames
    /\ config \in BatchConfigs
    /\ project = [none |-> TRUE]
    /\ image = "none"
    /\ warnings = <<>>
    /\ fits = [none |-> TRUE]
    /\ \E n \in 0..MaxBatch : projects \in [1..n -> BatchEntries]
    /\ only_ids \in {[given |-> FALSE, ids |-> {}], [given |-> TRUE, ids |-> {"P1"}]}
    /\ idx = 1
    /\ successes = <<>>
    /\ failures = <<>>
    /\ poster_calls = <<>>

\* "only_ids is not None and project.project_id not in only_ids" is false.
PassesFilter(entry) == ~only_ids.given \/ entry.project.project_id \in only_ids.ids

InLoop == pc = "for" /\ idx <= Len(projects)

BatchFrame ==
    UNCHANGED <<textVars, config, project, image, fits, imageVars, generatorVars,
                logoVars, nameVars, projects, only_ids>>

\* generator = PosterGenerator(...); successes = []; failures = [].
CreateGenerator ==
    /\ pc = "ready"
    /\ pc' = "for"
    /\ warnings' = <<>>
    /\ UNCHANGED <<idx, successes, failures, poster_calls>>
    /\ BatchFrame

\* The project is filtered out: continue.
SkipProject ==
    /\ InLoop
    /\ ~PassesFilter(projects[idx])
    /\ idx' = idx + 1
    /\ UNCHANGED <<pc, warnings, successes, failures, poster_calls>>
    /\ BatchFrame

\* project.validate() returned errors: failures.append, continue.
RejectProject ==
    /\ InLoop
    /\ PassesFilter(projects[idx])
    /\ validate(projects[idx].project) # <<>>
    /\ failures' = Append(failures, [project_id |-> projects[idx].project.project_id,
                                     error |-> "Validation errors",
                                     errors |-> validate(projects[idx].project)])
    /\ idx' = idx + 1
    /\ UNCHANGED <<pc, warnings, successes, poster_calls>>
    /\ BatchFrame

\* generate_poster returned: successes.append.
ComposeProject ==
    /\ InLoop
    /\ PassesFilter(projects[idx])
    /\ validate(projects[idx].project) = <<>>
    /\ ~PosterRaises(config, projects[idx])
    /\ warnings' = generate_poster(config, projects[idx].project, "none").warnings
    /\ successes' = Append(successes, [project_id |-> projects[idx].project.project_id])
    /\ poster_calls' = Append(poster_calls, [index |-> idx, saved |-> TRUE])
    /\ idx' = idx + 1
    /\ UNCHANGED <<pc, failures>>
    /\ BatchFrame

\* An exception of generate_poster leaves generate_all_posters.
FailProjectPropagates ==
    /\ InLoop
    /\ PassesFilter(projects[idx])
    /\ validate(projects[idx].project) = <<>>
    /\ PosterRaises(config, projects[idx])
    /\ pc' = "raised"
    /\ warnings' = <<>>
    /\ poster_calls' = Append(poster_calls, [index |-> idx, saved |-> FALSE])
    /\ UNCHANGED <<idx, successes, failures>>
    /\ BatchFrame

\* generate_poster raised: "except Exception" appends to failures and the
\* loop goes on.
FailProject ==
    /\ InLoop
    /\ PassesFilter(projects[idx])
    /\ validate(projects[idx].project) = <<>>
    /\ PosterRaises(config, projects[idx])
    /\ warnings' = WarningsUntilRaise(config, projects[idx].project, 1)
    /\ failures' = Append(failures, [project_id |-> projects[idx].project.project_id,
                                     error |-> "Failed to generate poster",
                                     errors |-> <<>>])
    /\ poster_calls' = Append(poster_calls, [index |-> idx, saved |-> FALSE])
    /\ idx' = idx + 1
    /\ UNCHANGED <<pc, successes>>
    /\ BatchFrame

\* return successes, failures.
ReturnLists ==
    /\ pc = "for"
    /\ idx > Len(projects)
    /\ pc' = "generate_all_posters"
    /\ UNCHANGED <<idx, warnings, successes, failures, poster_calls>>
    /\ BatchFrame

NextBatch ==
    \/ CreateGenerator
    \/ SkipProject
    \/ RejectProject
    \/ ComposeProject
    \/ FailProject
    \/ ReturnLists

SpecBatch == InitBatch /\ [][NextBatch]_vars

---------------------------------------------------------------------------
(* Properties of generate_all_posters, checked under SpecBatch *)

\* generate_all_posters is over: it returned, or an exception left it.
BatchOver == pc \notin {"ready", "for"}

\* The positions of the projects that pass the only_ids filter.
Passing == {i \in 1..Len(projects) : PassesFilter(projects[i])}

\* The project ids at the positions S of projects, in input order.
IdsAt(S) ==
    LET F[i \in 0..Len(projects)] ==
            IF i = 0 THEN <<>>
            ELSE IF i \in S THEN Append(F[i - 1], projects[i].project.project_id)
            ELSE F[i - 1]
    IN  F[Len(projects)]

IdsOf(list) == [i \in 1..Len(list) |-> list[i].project_id]

\* C18: per-record isolation.  When generate_all_posters is over it has
\* returned, and the projects that pass the only_ids filter split into two
\* groups, one listed in successes and the other in failures, each in input
\* order; the projects excluded by only_ids are in neither list.
C18_EveryProjectAccounted ==
    BatchOver =>
        /\ pc = "generate_all_posters"
        /\ \E S \in SUBSET Passing :
               /\ IdsOf(successes) = IdsAt(S)
               /\ IdsOf(failures) = IdsAt(Passing \ S)

\* A run of three projects in which an exception and a validation failure
\* were followed by a success.
C18_Witness ==
    /\ pc = "generate_all_posters"
    /\ Len(projects) = 3
    /\ Len(failures) = 2
    /\ failures[1].error = "Failed to generate poster"
    /\ failures[2].error = "Validation errors"
    /\ Len(successes) = 1
    /\ projects[1].save_fails /\ ~projects[3].save_fails

\* C19: configuration contract violations fail fast.  With min_font_size <= 0
\* no poster is produced and no error of generate_poster is recorded per
\* record inside the loop.
C19_BadConfigFailsFast ==
    config.min_font_size <= 0 =>
        /\ successes = <<>>
        /\ \A i \in 1..Len(failures) : failures[i].error # "Failed to generate poster"

\* The required fields of a record, which of them are empty, and the message
\* that names each.
RequiredFields == TextFields \cup {"project_id"}

IsEmpty(p, f) == IF f = "project_id" THEN p[f] = "" ELSE p[f] = <<>>

HasEmptyField(p) == \E f \in RequiredFields : IsEmpty(p, f)

MissingMessage ==
    [project_id |-> "Missing project_id", project_name |-> "Missing project_name",
     problem |-> "Missing problem description", solution |-> "Missing solution description",
     product |-> "Missing product description", team |-> "Missing team information"]

\* generate_poster was called for the project at position i, and a file was
\* written for it.
Invoked(i) == \E k \in 1..Len(poster_calls) : poster_calls[k].index = i
FileCreated(i) == \E k \in 1..Len(poster_calls) : poster_calls[k].index = i /\ poster_calls[k].saved

\* failures holds a 'Validation errors' entry for project p that lists every
\* empty field of p.
RecordedInvalid(p) ==
    \E k \in 1..Len(failures) :
        /\ failures[k].project_id = p.project_id
        /\ failures[k].error = "Validation errors"
        /\ \A f \in RequiredFields :
               IsEmpty(p, f) <=> \E n \in 1..Len(failures[k].errors) :
                                    failures[k].errors[n] = MissingMessage[f]

\* The loop has gone past position i.
Processed(i) == pc # "ready" /\ i < idx

\* C29 as stated: validation precedes composition.  generate_poster is never
\* invoked for a project with an empty required field; every such project
\* is recorded in failures with a 'Validation errors' message listing every
\* missing field, and no output file is created for it.
C29_InvalidAlwaysRecorded ==
    \A i \in 1..Len(projects) :
        HasEmptyField(projects[i].project) =>
            /\ ~Invoked(i)
            /\ ~FileCreated(i)
            /\ Processed(i) => RecordedInvalid(projects[i].project)

\* C29, amended: validation precedes composition.  generate_poster is never
\* invoked and no output file is created for a project with an empty required
\* field; such a project is recorded in failures with a 'Validation errors'
\* message listing every missing field when it passes the only_ids filter.
C29_ValidationPrecedesComposition ==
    \A i \in 1..Len(projects) :
        HasEmptyField(projects[i].project) =>
            /\ ~Invoked(i)
            /\ ~FileCreated(i)
            /\ Processed(i) /\ PassesFilter(projects[i]) =>
                   RecordedInvalid(projects[i].project)

\* A finished run in which a project with every text field empty was
\* rejected with five messages, a project without an id was rejected, and
\* a complete project was composed after them.
C29_Witness ==
    /\ pc = "generate_all_posters"
    /\ Len(projects) = 3
    /\ Len(validate(projects[1].project)) = 5
    /\ projects[2].project.project_id = ""
    /\ Len(failures) = 2
    /\ failures[1].errors = validate(projects[1].project)
    /\ failures[2].errors = <<"Missing project_id">>
    /\ poster_calls = <<[index |-> 3, saved |-> TRUE]>>

---------------------------------------------------------------------------
(* Greedy line filling of wrap_text, checked under SpecParagraph *)

\* The first word of a returned line.
FirstWord(line) == IF line = <<>> THEN <<>> ELSE SplitSpace(line)[1]

\* C20: greedy line filling.  For a text of one paragraph in which every word
\* fits max_width on its own, every returned line measures at most max_width,
\* and a line followed by a space and the first word of the next line
\* measures more than max_width.
C20_GreedyLines ==
    (Wrapped /\ ~HasChar(text, NL) /\ NoLongWord(text, max_width, font_size)) =>
        /\ \A i \in 1..Len(lines) : stringWidth(lines[i], font_size) <= max_width
        /\ \A i \in 1..(Len(lines) - 1) :
               stringWidth(lines[i] \o <<SP>> \o FirstWord(lines[i + 1]), font_size)
                   > max_width

---------------------------------------------------------------------------
(* Hard line breaks of wrap_text, checked under SpecWrap *)

\* C21: hard line breaks.  A newline of the text always ends the current
\* line: the lines before some line boundary hold exactly the words before
\* the newline.  No returned line is the empty string, and a text made only
\* of spaces and newlines yields the empty list.
C21_HardBreaksNoEmptyLine ==
    Wrapped =>
        /\ \A k \in 1..Len(text) : text[k] = NL =>
               \E j \in 0..Len(lines) :
                   NonSpace(Concat(SubSeq(lines, 1, j))) = NonSpace(SubSeq(text, 1, k - 1))
        /\ \A i \in 1..Len(lines) : lines[i] # <<>>
        /\ (\A k \in 1..Len(text) : text[k] \in {SP, NL}) => lines = <<>>

---------------------------------------------------------------------------
(* Character-level breaking, checked under SpecWrap *)

\* The first space-separated word of the text, and the text after the space
\* that ends it.
LeadingWord == SplitSpace(text)[1]
AfterLeadingWord == SubSeq(text, Len(LeadingWord) + 2, Len(text))

\* The text starts with a word that is wider than max_width on its own.
LeadingWordTooLong ==
    /\ LeadingWord # <<>>
    /\ ~HasChar(LeadingWord, NL)
    /\ stringWidth(LeadingWord, font_size) > max_width

\* C22: character-level breaking.  The fragments of a word wider than
\* max_width concatenate to the word, every fragment of more than one
\* character fits max_width, every fragment but the last is maximal, and
\* wrap_text returns the fragments as lines of their own, followed by the
\* lines of the text after the word.
C22_CharacterBreaking ==
    (Wrapped /\ LeadingWordTooLong) =>
        LET fragments == _break_long_word(LeadingWord, max_width, font_size)
            StartOf(i) == Len(Concat(SubSeq(fragments, 1, i - 1))) + 1
        IN  /\ Concat(fragments) = LeadingWord
            /\ \A i \in 1..Len(fragments) :
                   /\ fragments[i] # <<>>
                   /\ Len(fragments[i]) > 1 =>
                          stringWidth(fragments[i], font_size) <= max_width
            /\ \A i \in 1..(Len(fragments) - 1) :
                   stringWidth(Append(fragments[i], LeadingWord[StartOf(i + 1)]), font_size)
                       > max_width
            /\ lines = fragments \o wrap_text(AfterLeadingWord, max_width, font_size)

\* A word broken into a fragment of two characters and a shorter one, with a
\* word after it.
C22_Witness ==
    /\ Wrapped
    /\ LeadingWordTooLong
    /\ Len(lines) >= 3
    /\ Len(lines[1]) > 1
    /\ Len(_break_long_word(LeadingWord, max_width, font_size)) = 2
    /\ NonSpace(AfterLeadingWord) # <<>>

---------------------------------------------------------------------------
(* A single word wider than the box, checked under SpecFit *)

\* The text is one word, and the word is wider than max_width at every size
\* from initial_font_size down to min_font_size.
SingleLongWord ==
    /\ text # <<>>
    /\ \A k \in 1..Len(text) : text[k] \notin Whitespace
    /\ min_font_size <= initial_font_size
    /\ \A s \in min_font_size..initial_font_size : stringWidth(text, s) > max_width

\* The fragments of the word at size s, and whether they fit max_height.
FragmentsAt(s) == _break_long_word(text, max_width, s)
FragmentsFitAt(s) == HeightFits(FragmentsAt(s), s, max_height)

\* The last returned line is a prefix of the text followed by the ellipsis.
EndsInShortenedPrefix ==
    /\ lines # <<>>
    /\ \E p \in 0..(Len(text) - 1) :
           lines[Len(lines)] = Append(SubSeq(text, 1, p), ELLIPSIS)

\* max_height holds at least one line at min_font_size.
RoomForOneLine == max_height * LineSpacingDen >= min_font_size * LineSpacingNum

\* C23 as stated: a single word wider than max_width at every size is
\* returned truncated, its last line a shortened prefix of the word followed
\* by the ellipsis, for every max_height (here: every max_height that holds
\* a line).
C23_LongWordAlwaysTruncated ==
    (Fitted /\ SingleLongWord /\ RoomForOneLine) =>
        (was_truncated /\ EndsInShortenedPrefix)

\* C23 amended: the word is returned truncated exactly when its character
\* fragments fit max_height at no size; then the size is min_font_size, the
\* returned lines are fragments of the word, and the last of them is a prefix
\* of its fragment followed by the ellipsis.  Otherwise the fragments at the
\* largest size that fits are returned.
C23_LongWordTruncatedWhenTooTall ==
    (Fitted /\ SingleLongWord) =>
        LET n == Len(lines)
            fragments == FragmentsAt(font_size)
        IN  /\ was_truncated <=>
                   \A s \in min_font_size..initial_font_size : ~FragmentsFitAt(s)
            /\ was_truncated =>
                   /\ font_size = min_font_size
                   /\ n < Len(fragments)
                   /\ max_height >= 0 =>
                          n = IntTrunc(max_height * LineSpacingDen,
                                       min_font_size * LineSpacingNum)
                   /\ \A i \in 1..(n - 1) : lines[i] = fragments[i]
                   /\ n > 0 =>
                          \E p \in 0..Len(fragments[n]) :
                              lines[n] = Append(SubSeq(fragments[n], 1, p), ELLIPSIS)
            /\ ~was_truncated =>
                   /\ lines = fragments
                   /\ FragmentsFitAt(font_size)
                   /\ \A s \in (font_size + 1)..initial_font_size : ~FragmentsFitAt(s)

\* A word too tall at every size, in a box that holds a line: it is cut and
\* its last line ends in the ellipsis.
C23_Witness ==
    /\ Fitted
    /\ SingleLongWord
    /\ RoomForOneLine
    /\ min_font_size < initial_font_size
    /\ was_truncated
    /\ lines # <<>>
    /\ lines[Len(lines)][Len(lines[Len(lines)])] = ELLIPSIS

---------------------------------------------------------------------------
(* Centering and clipping in _draw_image, checked under SpecImage *)

\* An image that opens and draws, with positive intrinsic size.
ProperImage == ImageDrawn /\ image = "ok" /\ img_width > 0 /\ img_height > 0

Abs(i) == IF i < 0 THEN 0 - i ELSE i

\* A float in lowest terms (its denominator is a power of two).
RECURSIVE Reduced(_)
Reduced(x) ==
    IF x.num = 0 THEN FromInt(0)
    ELSE IF x.num % 2 = 0 /\ x.den % 2 = 0
         THEN Reduced([num |-> x.num \div 2, den |-> x.den \div 2])
    ELSE x

\* One axis of the placement in units of 1 / unit, all exact: draw is the
\* draw coordinate, excess the scaled size minus the target size, and offset
\* twice the distance from the centre of the target to the centre of the
\* draw rectangle, 2 * draw + scaled - (2 * at + target).
Axis(draw_at, scaled_size, at, target) ==
    LET d == Reduced(draw_at)
        s == Reduced(scaled_size)
        unit == Max2(d.den, s.den)
        draw == d.num * (unit \div d.den)
        scaled == s.num * (unit \div s.den)
    IN  [draw |-> draw,
         aligned |-> draw = at * unit,
         excess |-> scaled - target * unit,
         offset |-> 2 * draw + scaled - (2 * at + target) * unit]

AxisX == Axis(drawn.draw_x, drawn.scaled_width, target_x, target_width)
AxisY == Axis(drawn.draw_y, drawn.scaled_height, target_y, target_height)

\* C24 as stated: in both modes the centre of the draw rectangle coincides
\* with the centre of the target rectangle.
C24_CentresCoincide ==
    ProperImage => (AxisX.offset = 0 /\ AxisY.offset = 0)

\* The centre offset along one axis is within rounding: twice the distance
\* is at most 2^(1 - FloatBits) * (2 * |draw| + |scaled - target|), and the
\* axis is aligned exactly when the scaled size is the target's.
WithinRounding(axis) ==
    /\ axis.excess = 0 => (axis.aligned /\ axis.offset = 0)
    /\ Pow2(FloatBits) * Abs(axis.offset) <= 2 * (2 * Abs(axis.draw) + Abs(axis.excess))

\* C24 amended: the centres coincide up to the rounding of the floating-point
\* subtraction and addition that compute the draw position.
C24_CentresCoincideWithinRounding ==
    ProperImage => (WithinRounding(AxisX) /\ WithinRounding(AxisY))

\* The example of the claim at the scale of the model: cover of a 10x5 image
\* into a 5x5 target draws a 10x5 rectangle shifted left by 5/2.
C24_Witness ==
    /\ ProperImage
    /\ fit_mode = "cover"
    /\ img_width = 10 /\ img_height = 5
    /\ target_width = 5 /\ target_height = 5
    /\ FEq(drawn.scaled_width, FromInt(10))
    /\ FEq(drawn.scaled_height, FromInt(5))
    /\ FEq(drawn.draw_x, [num |-> 2 * target_x - 5, den |-> 2])
    /\ FEq(drawn.draw_y, FromInt(target_y))

\* C25: clip scope.  A clip path equal to the target rectangle is installed
\* only in cover mode, and on every path through _draw_image, the one where
\* drawing raises and the placeholder is drawn included, every saveState
\* is matched by a restoreState before the function returns.
C25_ClipNeverLeaks ==
    (ImageDrawn /\ img_width >= 0 /\ img_height >= 0) =>
        /\ drawn.clip = "target" => fit_mode = "cover"
        /\ fit_mode = "contain" => drawn.clip = "none"
        /\ drawn.depth = 0

---------------------------------------------------------------------------
(* The title and the team block of generate_poster *)

\* C26: title display cap.  generate_poster draws the first three lines that
\* fit_text_to_box returned for the project name, in order and one below the
\* other, and no more, whatever number of lines the fitter returned.
C26_TitleCap ==
    Composed =>
        LET name_lines == fits["name"].lines
            title == drawn.title
        IN  /\ Len(title) = Min2(Len(name_lines), 3)
            /\ \A i \in 1..Len(title) : title[i].text = name_lines[i]
            /\ \A i \in 1..(Len(title) - 1) : title[i + 1].y < title[i].y

\* The fitter returned five lines for the name and three were drawn.
C26_Witness ==
    /\ Composed
    /\ Len(fits["name"].lines) = 5
    /\ ~fits["name"].was_truncated
    /\ Len(drawn.title) = 3

\* The record given to generate_poster with only its team text kept.
TeamOnly ==
    [project EXCEPT !.project_name = <<>>, !.problem = <<>>, !.solution = <<>>,
                    !.product = <<>>]

---------------------------------------------------------------------------
(* poster.py: PosterGenerator._draw_logos *)

\* The longest list of logo paths of the model.
MaxLogos == 5

\* What a configured path holds: no file ("missing"), a file that Image.open
\* rejects ("unreadable"), an image that opens and that c.drawImage fails to
\* read ("corrupt"), or an image that draws ("ok"), with the intrinsic size
\* <<width, height>> of an image that opens.
LogoSizes == {<<1, 1>>, <<1, 2>>, <<3, 1>>, <<1, 0>>}

Logos ==
    [kind : {"missing", "unreadable"}, size : {<<1, 1>>}]
        \cup [kind : {"corrupt"}, size : {<<1, 1>>, <<3, 1>>}]
        \cup [kind : {"ok"}, size : LogoSizes]

\* The arguments x, y and max_width, and logo_height and spacing in points.
\* With these values logo_height * (img_width / img_height) is exact.
LogoAreas == [x : {0, 4}, y : {0}, max_width : {5, 8}, logo_height : {2}, spacing : {1}]

InitLogos ==
    /\ pc = "ready"
    /\ NoText
    /\ NoCalls
    /\ NoBatch
    /\ NoNames
    /\ config = DefaultConfig
    /\ project = [none |-> TRUE]
    /\ image = "none"
    /\ warnings = <<>>
    /\ fits = [none |-> TRUE]
    /\ img_width = 0 /\ img_height = 0
    /\ target_x = 0 /\ target_y = 0
    /\ target_width = 0 /\ target_height = 0
    /\ fit_mode = "cover"
    /\ drawn = <<>>
    /\ \E n \in 0..MaxLogos : logo_paths \in [1..n -> Logos]
    /\ logo_area \in LogoAreas
    /\ logo_i = 1
    /\ current_x = 0

LogosFrame ==
    UNCHANGED <<textVars, posterVars, img_width, img_height, target_x, target_y,
                target_width, target_height, fit_mode, generatorVars, batchVars,
                nameVars, logo_paths, logo_area>>

\* The logo the loop is at, and whether its image opens with a size that
\* gives an aspect ratio.
InLogoLoop == pc = "logos" /\ logo_i <= Len(logo_paths)
ThisLogo == logo_paths[logo_i]
Opens(logo) == logo.kind \in {"ok", "corrupt"} /\ logo.size[2] # 0

\* logo_width = logo_height * aspect
LogoWidth(logo) == (logo_area.logo_height * logo.size[1]) \div logo.size[2]

\* current_x + logo_width > x + max_width
Overflows(logo) == current_x + LogoWidth(logo) > logo_area.x + logo_area.max_width

\* Entry of _draw_logos: return at once when no paths are configured,
\* otherwise current_x = x and the loop starts.
EnterDrawLogos ==
    /\ pc = "ready"
    /\ IF logo_paths = <<>>
       THEN pc' = "logos_done" /\ UNCHANGED current_x
       ELSE pc' = "logos" /\ current_x' = logo_area.x
    /\ UNCHANGED <<logo_i, drawn>>
    /\ LogosFrame

\* "if not logo_path.exists(): continue"
SkipMissingLogo ==
    /\ InLogoLoop
    /\ ThisLogo.kind = "missing"
    /\ logo_i' = logo_i + 1
    /\ UNCHANGED <<pc, current_x, drawn>>
    /\ LogosFrame

\* Image.open, the division img_width / img_height, or c.drawImage of a logo
\* that does not overflow raises: the except block logs and the loop goes on.
SkipFailedLogo ==
    /\ InLogoLoop
    /\ \/ ThisLogo.kind = "unreadable"
       \/ ThisLogo.kind \in {"ok", "corrupt"} /\ ThisLogo.size[2] = 0
       \/ ThisLogo.kind = "corrupt" /\ Opens(ThisLogo) /\ ~Overflows(ThisLogo)
    /\ logo_i' = logo_i + 1
    /\ UNCHANGED <<pc, current_x, drawn>>
    /\ LogosFrame

\* c.drawImage at current_x, then current_x += logo_width + spacing.
PlaceLogo ==
    /\ InLogoLoop
    /\ ThisLogo.kind = "ok"
    /\ Opens(ThisLogo)
    /\ ~Overflows(ThisLogo)
    /\ drawn' = Append(drawn, [index |-> logo_i, x |-> current_x, y |-> logo_area.y,
                               width |-> LogoWidth(ThisLogo),
                               height |-> logo_area.logo_height])
    /\ current_x' = current_x + LogoWidth(ThisLogo) + logo_area.spacing
    /\ logo_i' = logo_i + 1
    /\ UNCHANGED pc
    /\ LogosFrame

\* StopPlacing going on with the next logo instead of leaving the loop.
StopPlacingContinues ==
    /\ InLogoLoop
    /\ Opens(ThisLogo)
    /\ Overflows(ThisLogo)
    /\ logo_i' = logo_i + 1
    /\ UNCHANGED <<pc, current_x, drawn>>
    /\ LogosFrame

\* "if current_x + logo_width > x + max_width: break"
StopPlacing ==
    /\ InLogoLoop
    /\ Opens(ThisLogo)
    /\ Overflows(ThisLogo)
    /\ pc' = "logos_done"
    /\ UNCHANGED <<logo_i, current_x, drawn>>
    /\ LogosFrame

\* The loop has gone through every path.
FinishLogos ==
    /\ pc = "logos"
    /\ logo_i > Len(logo_paths)
    /\ pc' = "logos_done"
    /\ UNCHANGED <<logo_i, current_x, drawn>>
    /\ LogosFrame

NextLogos ==
    \/ EnterDrawLogos
    \/ SkipMissingLogo
    \/ SkipFailedLogo
    \/ PlaceLogo
    \/ StopPlacing
    \/ FinishLogos

SpecLogos == InitLogos /\ [][NextLogos]_vars

\* current_x when the loop reaches logo j: x plus the width and the spacing
\* of every logo drawn before it.
RECURSIVE AdvanceBefore(_, _)
AdvanceBefore(j, k) ==
    IF k > Len(drawn) \/ drawn[k].index >= j THEN 0
    ELSE drawn[k].width + logo_area.spacing + AdvanceBefore(j, k + 1)

XAt(j) == logo_area.x + AdvanceBefore(j, 1)

WouldExceed(j) ==
    /\ Opens(logo_paths[j])
    /\ XAt(j) + LogoWidth(logo_paths[j]) > logo_area.x + logo_area.max_width

\* The strip as drawn so far: configuration order, the first logo at x, each
\* next one at the previous right edge plus the spacing, every right edge
\* within x + max_width, nothing drawn after a logo that would exceed the
\* budget, and no warning.
StripInOrder ==
    /\ \A k \in 1..Len(drawn) :
        /\ drawn[k].index \in 1..Len(logo_paths)
        /\ logo_paths[drawn[k].index].kind = "ok"
        /\ drawn[k].width = LogoWidth(logo_paths[drawn[k].index])
        /\ drawn[k].height = logo_area.logo_height
        /\ drawn[k].y = logo_area.y
        /\ drawn[k].x = (IF k = 1 THEN logo_area.x
                         ELSE drawn[k - 1].x + drawn[k - 1].width + logo_area.spacing)
        /\ k > 1 => drawn[k - 1].index < drawn[k].index
        /\ drawn[k].x + drawn[k].width <= logo_area.x + logo_area.max_width
        /\ \A j \in 1..(drawn[k].index - 1) : ~WouldExceed(j)
    /\ warnings = <<>>

\* A logo that is missing or fails to load is passed over and the loop goes
\* on with the next one; a logo that would exceed the budget ends the loop
\* with nothing more drawn; a logo that loads and fits is drawn.
StripStep ==
    InLogoLoop =>
        IF ThisLogo.kind \in {"missing", "unreadable"} \/ ThisLogo.size[2] = 0
        THEN pc' = "logos" /\ logo_i' = logo_i + 1 /\ drawn' = drawn
        ELSE IF Overflows(ThisLogo)
        THEN pc' = "logos_done" /\ drawn' = drawn
        ELSE /\ pc' = "logos" /\ logo_i' = logo_i + 1
             /\ ThisLogo.kind = "ok" => Len(drawn') = Len(drawn) + 1
                                         /\ drawn'[Len(drawn')].index = logo_i
             /\ ThisLogo.kind = "corrupt" => drawn' = drawn

\* C28: _draw_logos places the logos left to right in configuration order
\* from x, each next one at the previous right edge plus the spacing; every
\* drawn right edge is <= x + max_width; once a logo would exceed the budget
\* no later logo is drawn, even one that would fit; a logo that is missing or
\* fails to load is skipped and placement continues; no warning is added.
C28_LogoStrip ==
    /\ []StripInOrder
    /\ [][StripStep /\ (pc = "logos_done" => drawn' = drawn)]_vars

\* A logo drawn, a missing or unloadable logo passed over before another is
\* drawn next to the first, then a logo that exceeds the budget, and after it
\* a logo that would have fitted and is not drawn.
C28_Witness ==
    /\ pc = "logos_done"
    /\ Len(drawn) = 2
    /\ \E j \in 1..Len(logo_paths) :
        /\ drawn[1].index < j /\ j < drawn[2].index
        /\ logo_paths[j].kind \in {"missing", "unreadable"}
    /\ \E j \in 1..Len(logo_paths), l \in 1..Len(logo_paths) :
        /\ drawn[2].index < j /\ j < l
        /\ WouldExceed(j)
        /\ logo_paths[l].kind = "ok"
        /\ Opens(logo_paths[l])
        /\ current_x + LogoWidth(logo_paths[l]) <= logo_area.x + logo_area.max_width

---------------------------------------------------------------------------
(* text_utils.py: sanitize_filename *)

\* Bound: the longest name given to sanitize_filename.
MaxNameLen == 5

\* max_length when the caller gives none.
DefaultMaxLength == 200

\* unsafe_chars = '<>:"/\\|?*\x00' ("NUL" stands for the character of code 0).
unsafe_chars == {"<", ">", ":", "\"", "/", "\\", "|", "?", "*", "NUL"}

\* The characters .strip(" .") removes.
StripChars == {" ", "."}

\* The characters of the names of the model: a letter, the space, the dot, the
\* underscore and one unsafe character.
NameChars == {"a", " ", ".", "_", "/"}

Names == UNION {[1..n -> NameChars] : n \in 0..MaxNameLen}

MaxLengths == 0..MaxNameLen \cup {DefaultMaxLength}

\* "for char in unsafe_chars: result = result.replace(char, '_')"
ReplaceUnsafe(s) == [i \in 1..Len(s) |-> IF s[i] \in unsafe_chars THEN "_" ELSE s[i]]

\* s.replace(ch + ch, ch) from position i on: every occurrence found scanning
\* from the left, without overlap.
RECURSIVE ReplacePairs(_, _, _)
ReplacePairs(s, i, ch) ==
    IF i > Len(s) THEN <<>>
    ELSE IF i < Len(s) /\ s[i] = ch /\ s[i + 1] = ch
         THEN <<ch>> \o ReplacePairs(s, i + 2, ch)
         ELSE <<s[i]>> \o ReplacePairs(s, i + 1, ch)

\* ch + ch in s
HasPair(s, ch) == \E i \in 1..(Len(s) - 1) : s[i] = ch /\ s[i + 1] = ch

\* "while ch + ch in result: result = result.replace(ch + ch, ch)"
RECURSIVE CollapseLoop(_, _)
CollapseLoop(s, ch) ==
    IF HasPair(s, ch) THEN CollapseLoop(ReplacePairs(s, 1, ch), ch) ELSE s

\* s.strip(" .")
RECURSIVE StripDotsAndSpaces(_)
StripDotsAndSpaces(s) ==
    IF s = <<>> THEN s
    ELSE IF s[1] \in StripChars THEN StripDotsAndSpaces(Tail(s))
    ELSE IF s[Len(s)] \in StripChars THEN StripDotsAndSpaces(SubSeq(s, 1, Len(s) - 1))
    ELSE s

\* sanitize_filename(name, max_length), for max_length >= 0.
sanitize_filename(n, limit) ==
    LET replaced == ReplaceUnsafe(n)
        spaces == CollapseLoop(replaced, " ")
        underscores == CollapseLoop(spaces, "_")
        stripped == StripDotsAndSpaces(underscores)
    IN  IF Len(stripped) > limit THEN SubSeq(stripped, 1, limit) ELSE stripped

InitSanitize ==
    /\ pc = "ready"
    /\ NoText
    /\ NoPoster
    /\ NoImage
    /\ NoCalls
    /\ NoBatch
    /\ NoLogos
    /\ name \in Names
    /\ max_length \in MaxLengths
    /\ filename = <<>>

\* result = sanitize_filename(name, max_length)
CallSanitizeFilename ==
    /\ pc = "ready"
    /\ pc' = "sanitize_filename"
    /\ filename' = sanitize_filename(name, max_length)
    /\ UNCHANGED <<name, max_length, textVars, posterVars, imageVars, generatorVars,
                   batchVars, logoVars>>

\* sanitize_filename applied to its own result.
SanitizeAgain ==
    /\ pc = "sanitize_filename"
    /\ pc' = "sanitized_again"
    /\ name' = filename
    /\ filename' = sanitize_filename(filename, max_length)
    /\ UNCHANGED <<max_length, textVars, posterVars, imageVars, generatorVars,
                   batchVars, logoVars>>

NextSanitize == CallSanitizeFilename \/ SanitizeAgain

SpecSanitize == InitSanitize /\ [][NextSanitize]_vars

---------------------------------------------------------------------------
(* Properties of sanitize_filename, checked under SpecSanitize *)

\* The pair ch ch, and the characters of the set S, do not occur in s.
NoPair(s, ch) == ~HasPair(s, ch)
NoneOf(s, S) == \A i \in 1..Len(s) : s[i] \notin S

\* s neither begins nor ends with a space or a dot.
Trimmed(s) == s # <<>> => s[1] \notin StripChars /\ s[Len(s)] \notin StripChars

\* What the result always has: no unsafe character, no two consecutive
\* underscores or spaces, at most max_length characters, no leading space
\* or dot.
SafeCharacters ==
    pc = "sanitize_filename" =>
        /\ NoneOf(filename, unsafe_chars)
        /\ NoPair(filename, "_")
        /\ NoPair(filename, " ")
        /\ Len(filename) <= max_length
        /\ filename # <<>> => filename[1] \notin StripChars

\* C30: output name sanitization.  For every name and max_length the result
\* of sanitize_filename has no unsafe character, no two consecutive
\* underscores, no two consecutive spaces, at most max_length characters, and
\* neither begins nor ends with a space or a dot, also when it was truncated;
\* sanitize_filename applied to its own result returns it unchanged.
C30_SanitizedName ==
    /\ pc = "sanitize_filename" =>
        /\ NoneOf(filename, unsafe_chars)
        /\ NoPair(filename, "_")
        /\ NoPair(filename, " ")
        /\ Len(filename) <= max_length
        /\ Trimmed(filename)
    /\ pc = "sanitized_again" => filename = name

====
